---- MODULE Spec2Model ----
(***************************************************************************)
(* The microtype! procedural macro: parse -> flatten -> (per microtype)     *)
(* strip_special_attrs -> generate_normal / generate_secret -> one token    *)
(* stream.  The state is one macro invocation: the parsed declarations,     *)
(* the cargo features the macro crate was built with, the flattened list,   *)
(* the position of codegen's loop and the token stream built so far.  Two   *)
(* more variables carry what lies before and after that: `src` is the       *)
(* input parse has not consumed yet, `rt` one use of a generated type by    *)
(* the code that called the macro.                                          *)
(***************************************************************************)
EXTENDS Integers, Sequences, FiniteSets, TLC

VARIABLES features, decls, pc, microtypes, idx, stream, results, src, rt

vars == <<features, decls, pc, microtypes, idx, stream, results, src, rt>>

(***************************************************************************)
(* Bounds of the checked inputs.                                            *)
(***************************************************************************)
\* longest attribute list of the single-microtype invocations
MaxAttrs == 3
\* longest attribute list checked under every feature combination
MaxGenAttrs == 2
\* longest name-level and longest block-level attribute list of the
\* single-microtype invocations that carry both
MaxSplitAttrs == 1
\* most declaration blocks of the multi-block invocations
MaxDecls == 2
\* most names in one declaration block
MaxIdents == 2
\* longest block-level / name-level attribute list of the multi-block invocations
MaxFlatAttrs == 2
\* longest attribute list of the column-mapping invocations
MaxDieselAttrs == 2
\* most names in the block of the mixed invocations
MaxMixIdents == 2
\* most blocks in the source text of the parsed invocations
MaxSrcBlocks == 2

(***************************************************************************)
(* Source positions (proc_macro2::Span).  An attribute is identified by its *)
(* ordinal `pos` in the source text; `part` says which tokens of it a span  *)
(* covers.  Span::call_site() covers no attribute at all.                   *)
(***************************************************************************)
SpanOf(pos, part, n) == [pos |-> pos, part |-> part, n |-> n]

CallSite == SpanOf(0, "call_site", 0)

\* Attribute::span(): the whole `#[...]`
AttrSpan(attr) == SpanOf(attr.pos, "attr", 0)

\* attr.path.span(): the marker's name
PathSpan(attr) == SpanOf(attr.pos, "path", 0)

\* the span of the n-th argument of the attribute's argument list
NestedSpan(attr, n) == SpanOf(attr.pos, "nested", n)

\* Meta::span() of a `name = value` attribute body
MetaSpan(attr) == SpanOf(attr.pos, "meta", 0)

\* the span syn attaches to its own parse error inside the attribute
SynErrSpan(attr) == SpanOf(attr.pos, "syn", 0)

(***************************************************************************)
(* Attributes (syn::Attribute).  `form` and `nested` are what parse_meta()   *)
(* makes of the attribute's tokens: a bare path, a parenthesised list of     *)
(* nested metas, a name = value pair, or a parse error.                      *)
(***************************************************************************)
Attr(name, form, nested, pos) ==
    [name |-> name, form |-> form, nested |-> nested, pos |-> pos]

\* the attribute bodies the inputs are drawn from, without their positions
SecretBodies ==
    { <<"secret", "path", <<>>>>,
      <<"secret", "list", <<>>>>,
      <<"secret", "list", <<"serialize">>>>,
      <<"secret", "list", <<"other">>>>,
      <<"secret", "list", <<"serialize", "other">>>>,
      <<"secret", "name_value", <<>>>>,
      <<"secret", "invalid", <<>>>> }

KindBodies == { <<"string", "path", <<>>>>, <<"int", "path", <<>>>> }

\* for the diesel marker `nested` holds the tokens between its parentheses
OtherBodies ==
    { <<"diesel", "list", <<"sql_type", "=", "Text">>>>, <<"derive", "list", <<"other">>>> }

\* column-mapping markers, well-formed and malformed, and what they mix with
DieselBodies ==
    { <<"diesel", "list", <<"sql_type", "=", "Text">>>>,
      <<"diesel", "list", <<"sql_type", "=", "Integer">>>>,
      <<"diesel", "list", <<"sql_type">>>>,
      <<"diesel", "path", <<>>>>,
      <<"derive", "list", <<"other">>>>,
      <<"secret", "path", <<>>>> }

\* what one name of a several-name block may carry: nothing, or one of these
MixBodies ==
    { <<"secret", "path", <<>>>>,
      <<"secret", "list", <<"other">>>>,
      <<"string", "path", <<>>>>,
      <<"derive", "list", <<"other">>>> }

AttrBodies == SecretBodies \cup KindBodies \cup OtherBodies

FlatBody == <<"derive", "list", <<"other">>>>

\* attr.path.is_ident(name)
is_ident(attr, name) == attr.name = name

\* indices of the attributes of a list that carry the marker `name`
Marked(attrs, name) == { j \in DOMAIN attrs : attrs[j].name = name }

\* the index of the n-th attribute of the list that carries the marker `name`
NthMarked(attrs, name, n) ==
    CHOOSE j \in Marked(attrs, name) :
        Cardinality({ h \in Marked(attrs, name) : h < j }) = n - 1

(***************************************************************************)
(* Cargo features of the macro crate (codegen/mod.rs HAS_* constants).       *)
(***************************************************************************)
AllFeatures ==
    [serde : BOOLEAN, test_impls : BOOLEAN, deref_impls : BOOLEAN, secret : BOOLEAN]

FlatFeatures ==
    { [serde |-> b, test_impls |-> b, deref_impls |-> b, secret |-> b] : b \in BOOLEAN }

HAS_SERDE == features.serde

HAS_TEST_IMPLS == features.test_impls

HAS_DEREF_IMPLS == features.deref_impls

\* HAS_SECRET reading the wrong feature
HAS_SECRET_from_serde == features.serde

HAS_SECRET == features.secret

(***************************************************************************)
(* Parsed input (parse.rs): MicrotypeMacro is a list of MicrotypeDecl, each  *)
(* with block attributes, visibility, inner type and a list of AttrIdent.    *)
(***************************************************************************)
AttrIdent(attributes, ident) == [attributes |-> attributes, ident |-> ident]

MicrotypeDecl(attrs, vis, inner, idents) ==
    [attrs |-> attrs, vis |-> vis, inner |-> inner, idents |-> idents]

\* sequences over S of length at most n
SeqUpTo(S, n) == UNION { [1..k -> S] : k \in 0..n }

\* a list of attribute bodies placed at source positions first, first+1, ...
Place(bodies, first) ==
    [j \in 1..Len(bodies) |->
        Attr(bodies[j][1], bodies[j][2], bodies[j][3], first + j - 1)]

\* one block, one name, every attribute at block level
AttrInvocations(n) ==
    { <<MicrotypeDecl(Place(bodies, 1), "inherited", "String",
                      <<AttrIdent(<<>>, "A")>>)>> :
        bodies \in SeqUpTo(AttrBodies, n) }

\* one block, one name, attributes on the block and on the name: the block's
\* come first in the source
SplitInvocations ==
    { <<MicrotypeDecl(Place(B, 1), "pub", "i64",
                      <<AttrIdent(Place(N, Len(B) + 1), "A")>>)>> :
        B \in SeqUpTo(AttrBodies, MaxSplitAttrs),
        N \in SeqUpTo(AttrBodies, MaxSplitAttrs) }

\* one block, one name, block-level attributes around the column-mapping marker
DieselInvocations ==
    { <<MicrotypeDecl(Place(bodies, 1), "pub", "String",
                      <<AttrIdent(<<>>, "A")>>)>> :
        bodies \in SeqUpTo(DieselBodies, MaxDieselAttrs) }

IdentNames == <<"A", "B", "C", "D", "E", "F", "G", "H", "I">>

\* one block of several names, each name with at most one attribute of its own
MixedInvocations ==
    { <<MicrotypeDecl(<<>>, "pub", "String",
                      [i \in 1..Len(names) |->
                          AttrIdent(Place(names[i], i), IdentNames[i])])>> :
        names \in SeqUpTo(SeqUpTo(MixBodies, 1), MaxMixIdents) }

\* names a caller may declare side by side: any identifier is accepted, one
\* spelled like a hidden wrapper too
ClashNames == {"A", "B", "__WrapperA"}

\* one block of two different names, each bare or marked #[secret]
ClashInvocations ==
    { <<MicrotypeDecl(<<>>, "pub", "String",
                      <<AttrIdent(IF marks[1] THEN Place(<<<<"secret", "path", <<>>>>>>, 1)
                                  ELSE <<>>, names[1]),
                        AttrIdent(IF marks[2] THEN Place(<<<<"secret", "path", <<>>>>>>, 2)
                                  ELSE <<>>, names[2])>>)>> :
        names \in { n \in ClashNames \X ClashNames : n[1] # n[2] },
        marks \in BOOLEAN \X BOOLEAN }

Inners == <<"String", "i64">>

Visibilities == <<"inherited", "pub">>

\* shape of a block: number of block attributes, number of names
BlockShapes == [nb : 0..MaxFlatAttrs, ni : 0..MaxIdents]

RECURSIVE AttrsBefore(_, _, _)
\* number of attributes written in the source before block b
AttrsBefore(shapes, nn, b) ==
    IF b = 1 THEN 0
    ELSE AttrsBefore(shapes, nn, b - 1) + shapes[b - 1].nb + shapes[b - 1].ni * nn

\* the b-th block of a multi-block invocation: attributes numbered in source
\* order (block attributes first, then each name's), names by block and index
FlatDecl(shapes, nn, b) ==
    LET base == AttrsBefore(shapes, nn, b)
        sh == shapes[b]
    IN MicrotypeDecl(
         Place([j \in 1..sh.nb |-> FlatBody], base + 1),
         Visibilities[((b - 1) % 2) + 1],
         Inners[((b - 1) % 2) + 1],
         [i \in 1..sh.ni |->
            AttrIdent(Place([j \in 1..nn |-> FlatBody],
                            base + sh.nb + (i - 1) * nn + 1),
                      IdentNames[(b - 1) * MaxIdents + i])])

FlatInvocations ==
    { [b \in 1..Len(shapes) |-> FlatDecl(shapes, nn, b)] :
        shapes \in SeqUpTo(BlockShapes, MaxDecls), nn \in 0..MaxFlatAttrs }

(***************************************************************************)
(* model.rs: flatten                                                        *)
(***************************************************************************)
Microtype(inner, name, vis, attrs) ==
    [inner |-> inner, name |-> name, vis |-> vis, attrs |-> attrs]

\* flatten_decl with the block's attributes put first
flatten_decl_block_first(decl) ==
    [i \in 1..Len(decl.idents) |->
        Microtype(decl.inner, decl.idents[i].ident, decl.vis,
                  decl.attrs \o decl.idents[i].attributes)]

\* the inner loop of flatten: one Microtype per name of the block, its
\* attributes the name's own followed by the block's
flatten_decl(decl) ==
    [i \in 1..Len(decl.idents) |->
        Microtype(decl.inner, decl.idents[i].ident, decl.vis,
                  decl.idents[i].attributes \o decl.attrs)]

RECURSIVE flatten_from_reversed(_, _)
\* flatten_from pushing the later blocks' microtypes first
flatten_from_reversed(m, b) ==
    IF b > Len(m) THEN <<>>
    ELSE flatten_from_reversed(m, b + 1) \o flatten_decl(m[b])

RECURSIVE flatten_from(_, _)
\* the outer loop of flatten, from block b on
flatten_from(m, b) ==
    IF b > Len(m) THEN <<>>
    ELSE flatten_decl(m[b]) \o flatten_from(m, b + 1)

flatten(microtype_macro) == flatten_from(microtype_macro, 1)

(***************************************************************************)
(* Token streams.  A stream is a sequence of tokens, one per attribute,     *)
(* struct definition, impl block or compile_error! invocation, in the       *)
(* order quote! writes them.  `on` is the type the token belongs to, `cfg`  *)
(* the build it is compiled in, `span` where a diagnostic would point, `ty` *)
(* the type the item holds or refers to, `field` the visibility of a        *)
(* struct's field.                                                          *)
(***************************************************************************)
Tok(k, on, what, cfg, span, ty) ==
    [k |-> k, on |-> on, what |-> what, cfg |-> cfg, span |-> span, ty |-> ty,
     field |-> ""]

\* quote_spanned!(span => compile_error!(msg))
compile_error(msg, span) == <<Tok("compile_error", "", msg, "always", span, "")>>

\* a generated attribute on the definition of `on`
GenAttr(on, what, cfg) == Tok("attr", on, what, cfg, CallSite, "")

\* #(#attrs)*: the caller's remaining attributes, re-emitted on `on`
UserAttrs(on, attrs) ==
    [j \in 1..Len(attrs) |->
        Tok("user_attr", on, attrs[j].name, "always", AttrSpan(attrs[j]), "")]

\* #vis struct #name(#field #ty);
Struct(name, vis, field, ty) ==
    [Tok("struct", name, vis, "always", CallSite, ty) EXCEPT !.field = field]

Impl(trait, on, cfg, ty) == Tok("impl", on, trait, cfg, CallSite, ty)

(***************************************************************************)
(* codegen/special_attrs/type_annotation.rs                                 *)
(* (messages are written without the backquotes of the source)              *)
(***************************************************************************)
duplicate_string(span) == compile_error("duplicate string attribute found", span)

duplicate_int(span) == compile_error("duplicate int attribute found", span)

multiple_special_attrs ==
    compile_error("only one of #[int], #[string] allowed", CallSite)

\* Iterator::partition by attr.path.is_ident(name): both halves keep their order
partition(attrs, name) ==
    [yes |-> SelectSeq(attrs, LAMBDA a : is_ident(a, name)),
     no |-> SelectSeq(attrs, LAMBDA a : ~is_ident(a, name))]

TypeOk(attrs, annotation) ==
    [ok |-> TRUE, attrs |-> attrs, type_annotation |-> annotation, err |-> <<>>]

TypeErr(tokens) ==
    [ok |-> FALSE, attrs |-> <<>>, type_annotation |-> "None", err |-> tokens]

\* strip_type_annotation reporting a duplicate at the first marker
strip_type_annotation_dup_first(attrs) ==
    LET s == partition(attrs, "string")
        i == partition(s.no, "int")
        string == Len(s.yes) = 1
        int == Len(i.yes) = 1
    IN IF Len(s.yes) >= 2 THEN TypeErr(duplicate_string(AttrSpan(s.yes[1])))
       ELSE IF Len(i.yes) >= 2 THEN TypeErr(duplicate_int(AttrSpan(i.yes[1])))
       ELSE IF ~string /\ ~int THEN TypeOk(i.no, "None")
       ELSE IF string /\ ~int THEN TypeOk(i.no, "String")
       ELSE IF ~string /\ int THEN TypeOk(i.no, "Int")
       ELSE TypeErr(multiple_special_attrs)

\* strip_type_annotation whose last match arm lets `string` win over `int`
strip_type_annotation_string_wins(attrs) ==
    LET s == partition(attrs, "string")
        i == partition(s.no, "int")
    IN IF Len(s.yes) >= 2 THEN TypeErr(duplicate_string(AttrSpan(s.yes[2])))
       ELSE IF Len(i.yes) >= 2 THEN TypeErr(duplicate_int(AttrSpan(i.yes[2])))
       ELSE IF Len(s.yes) = 1 THEN TypeOk(i.no, "String")
       ELSE IF Len(i.yes) = 1 THEN TypeOk(i.no, "Int")
       ELSE TypeOk(i.no, "None")

strip_type_annotation(attrs) ==
    LET s == partition(attrs, "string")
        i == partition(s.no, "int")
        string == Len(s.yes) = 1
        int == Len(i.yes) = 1
    IN IF Len(s.yes) >= 2 THEN TypeErr(duplicate_string(AttrSpan(s.yes[2])))
       ELSE IF Len(i.yes) >= 2 THEN TypeErr(duplicate_int(AttrSpan(i.yes[2])))
       ELSE IF ~string /\ ~int THEN TypeOk(i.no, "None")
       ELSE IF string /\ ~int THEN TypeOk(i.no, "String")
       ELSE IF ~string /\ int THEN TypeOk(i.no, "Int")
       ELSE TypeErr(multiple_special_attrs)

(***************************************************************************)
(* codegen/special_attrs/mod.rs                                             *)
(***************************************************************************)
generic_err(span) ==
    compile_error("expected either #[secret] or #[secret(serialize)]", span)

duplicate_secret(span) == compile_error("duplicate secret attribute found", span)

\* syn::Error::to_compile_error() of a failed parse_meta()
syn_error(attr) == compile_error("syn parse error", SynErrSpan(attr))

\* Option<SecretAttr>: `path` is the span of the marker's path
SecretAttr(some, serialize, path) ==
    [some |-> some, serialize |-> serialize, path |-> path]

NoSecret == SecretAttr(FALSE, FALSE, CallSite)

SecretOk(attr, serialize) ==
    [ok |-> TRUE, secret |-> SecretAttr(TRUE, serialize, PathSpan(attr)), err |-> <<>>]

SecretErr(tokens) == [ok |-> FALSE, secret |-> NoSecret, err |-> tokens]

\* the `[single]` arm: single.parse_meta() and the match on its nested list
parse_secret(single) ==
    CASE single.form = "list" ->
            IF single.nested = <<>> THEN SecretOk(single, FALSE)
            ELSE IF Len(single.nested) = 1 /\ single.nested[1] = "serialize"
                 THEN SecretOk(single, TRUE)
            ELSE SecretErr(generic_err(NestedSpan(single, 1)))
      [] single.form = "path" -> SecretOk(single, FALSE)
      [] single.form = "name_value" -> SecretErr(generic_err(MetaSpan(single)))
      [] OTHER -> SecretErr(syn_error(single))

\* strip_secret reporting a duplicate at the first marker
strip_secret_first(secret) ==
    IF secret = <<>> THEN [ok |-> TRUE, secret |-> NoSecret, err |-> <<>>]
    ELSE IF Len(secret) >= 2 THEN SecretErr(duplicate_secret(AttrSpan(secret[1])))
    ELSE parse_secret(secret[1])

\* the match on the partitioned `secret` attributes
strip_secret(secret) ==
    IF secret = <<>> THEN [ok |-> TRUE, secret |-> NoSecret, err |-> <<>>]
    ELSE IF Len(secret) >= 2 THEN SecretErr(duplicate_secret(AttrSpan(secret[2])))
    ELSE parse_secret(secret[1])

SpecialAttrs(secret, type_annotation) ==
    [secret |-> secret, type_annotation |-> type_annotation]

StripOk(attrs, special_attrs) ==
    [ok |-> TRUE, attrs |-> attrs, special_attrs |-> special_attrs, err |-> <<>>]

StripErr(tokens) ==
    [ok |-> FALSE, attrs |-> <<>>,
     special_attrs |-> SpecialAttrs(NoSecret, "None"), err |-> tokens]

\* strip_special_attrs returning the type annotation's error before the
\* secret marker's
strip_special_attrs_type_first(attrs) ==
    LET p == partition(attrs, "secret")
        secret == strip_secret(p.yes)
        ty == strip_type_annotation(p.no)
    IN IF ~ty.ok THEN StripErr(ty.err)
       ELSE IF ~secret.ok THEN StripErr(secret.err)
       ELSE StripOk(ty.attrs, SpecialAttrs(secret.secret, ty.type_annotation))

strip_special_attrs(attrs) ==
    LET p == partition(attrs, "secret")
        secret == strip_secret(p.yes)
        ty == strip_type_annotation(p.no)
    IN IF ~secret.ok THEN StripErr(secret.err)
       ELSE IF ~ty.ok THEN StripErr(ty.err)
       ELSE StripOk(ty.attrs, SpecialAttrs(secret.secret, ty.type_annotation))

(***************************************************************************)
(* codegen/special_attrs/diesel.rs: the extraction of the column-mapping    *)
(* marker.  No pass of strip_special_attrs and no generator calls it.       *)
(***************************************************************************)
\* Option<Type>
SomeType(ty) == [kind |-> "Some", ty |-> ty]

NoType == [kind |-> "None", ty |-> ""]

\* Inner::parse inside attr.parse_args(): a parenthesised `ident = type` and
\* nothing after it; an identifier also parses as a type
parse_args_Inner(attr) ==
    /\ attr.form = "list"
    /\ Len(attr.nested) = 3
    /\ attr.nested[1] # "="
    /\ attr.nested[2] = "="
    /\ attr.nested[3] # "="

\* let Inner { ty, .. } = attr.parse_args().ok()?; Some(ty)
to_type(attr) == IF parse_args_Inner(attr) THEN SomeType(attr.nested[3]) ELSE NoType

\* attrs.iter().find(..).cloned().and_then(to_type)
find_diesel_attr(attrs) ==
    IF Marked(attrs, "diesel") = {} THEN NoType
    ELSE to_type(attrs[NthMarked(attrs, "diesel", 1)])

(***************************************************************************)
(* codegen/diesel.rs: the column-mapping implementation pair of a normal    *)
(* microtype.  generate_normal does not call it.                            *)
(***************************************************************************)
\* impl FromSql<#sql_type, B> for #name: <#inner as FromSql>::from_sql(bytes).map(#name)
from_sql_not_secret(sql_type, inner, name) == Impl("FromSql", name, "always", sql_type)

\* impl ToSql<#sql_type, B> for #name: <#inner as ToSql>::to_sql(&self.0, out)
to_sql_not_secret(sql_type, inner, name) == Impl("ToSql", name, "always", sql_type)

(***************************************************************************)
(* codegen/special_attrs/helpers.rs, int.rs, string.rs: the generators of   *)
(* the integer and string capability groups.  special_attrs/mod.rs          *)
(* re-exports generate_int_impls; neither generate_normal nor               *)
(* generate_secret calls either of them.                                    *)
(***************************************************************************)
fmt_impl(name, inner, trait_name) == Impl(trait_name, name, "always", inner)

generate_int_impls(name, inner) ==
    <<fmt_impl(name, inner, "Display"),
      fmt_impl(name, inner, "Octal"),
      fmt_impl(name, inner, "LowerHex"),
      fmt_impl(name, inner, "UpperHex"),
      fmt_impl(name, inner, "Binary"),
      fmt_impl(name, inner, "LowerExp"),
      fmt_impl(name, inner, "UpperExp"),
      Impl("FromStr", name, "always", "ParseIntError"),
      Impl("Add", name, "always", ""),
      Impl("Sub", name, "always", ""),
      Impl("Mul", name, "always", ""),
      Impl("Div", name, "always", ""),
      Impl("Rem", name, "always", ""),
      Impl("AddAssign", name, "always", ""),
      Impl("SubAssign", name, "always", ""),
      Impl("MulAssign", name, "always", ""),
      Impl("DivAssign", name, "always", ""),
      Impl("RemAssign", name, "always", "")>>

generate_string_impls(name, inner) ==
    <<fmt_impl(name, inner, "Display"),
      Impl("FromStr", name, "always", "Infallible"),
      Impl("From<&str>", name, "always", ""),
      Impl("AsRef<str>", name, "always", "")>>

(***************************************************************************)
(* codegen/errors.rs                                                        *)
(***************************************************************************)
\* serialize_without_serde written with quote! instead of quote_spanned!
serialize_without_serde_unspanned(span) ==
    compile_error("#[secret(serialize)] has no effect unless the serde_support feature is enabled]",
                  CallSite)

serialize_without_serde(span) ==
    compile_error("#[secret(serialize)] has no effect unless the serde_support feature is enabled]",
                  span)

secret_feature_missing(span) ==
    compile_error("#[secret] is only supported when the secret feature is enabled", span)

(***************************************************************************)
(* A generator either returns a token stream or panics (todo!(), assert!).  *)
(***************************************************************************)
Generated(tokens) == [panic |-> FALSE, tokens |-> tokens]

Panicked == [panic |-> TRUE, tokens |-> <<>>]

(***************************************************************************)
(* codegen/normal.rs                                                        *)
(***************************************************************************)
\* #[repr(transparent)] #vis struct #name(pub #inner);
generate_struct(name, vis, inner) ==
    <<GenAttr(name, "repr(transparent)", "always"), Struct(name, vis, "pub", inner)>>

\* impl ::microtype::Microtype: new, into_inner, inner, inner_mut, convert
generate_microtype_impl(name, inner) == <<Impl("Microtype", name, "always", inner)>>

generate_from_impl(name, inner) == <<Impl("From<inner>", name, "always", inner)>>

\* generate_deref_impl that ignores the deref_impls feature
generate_deref_impl_always(name, inner) ==
    <<Impl("Deref", name, "always", inner), Impl("DerefMut", name, "always", inner)>>

generate_deref_impl(name, inner) ==
    IF HAS_DEREF_IMPLS
    THEN <<Impl("Deref", name, "always", inner), Impl("DerefMut", name, "always", inner)>>
    ELSE <<>>

serde_derives(name) ==
    IF HAS_SERDE
    THEN <<GenAttr(name, "derive(Deserialize, Serialize)", "always"),
           GenAttr(name, "serde(transparent)", "always")>>
    ELSE <<>>

normal_string_impls(name) ==
    <<Impl("FromStr", name, "always", "Infallible"),
      Impl("Display", name, "always", ""),
      Impl("From<&str>", name, "always", "")>>

\* the match on special_attrs.type_annotation
normal_type_specific_impls(name, type_annotation) ==
    CASE type_annotation = "None" -> Generated(<<>>)
      [] type_annotation = "String" -> Generated(normal_string_impls(name))
      [] OTHER -> Panicked

generate_normal(inner, name, vis, attrs, special_attrs) ==
    LET type_specific_impls ==
            normal_type_specific_impls(name, special_attrs.type_annotation)
    IN IF type_specific_impls.panic THEN Panicked
       ELSE Generated(UserAttrs(name, attrs)
                      \o serde_derives(name)
                      \o generate_struct(name, vis, inner)
                      \o generate_microtype_impl(name, inner)
                      \o generate_from_impl(name, inner)
                      \o generate_deref_impl(name, inner)
                      \o type_specific_impls.tokens)

(***************************************************************************)
(* codegen/secret.rs                                                        *)
(***************************************************************************)
\* attrs_for_both deriving Deserialize only together with Serialize
attrs_for_both_serialize_only(on, serialize) ==
    <<GenAttr(on, "repr(transparent)", "always"),
      GenAttr(on, "derive(Clone)", "always"),
      GenAttr(on, "derive(Debug)", "not_test")>>
    \o (IF ~HAS_TEST_IMPLS THEN <<GenAttr(on, "derive(Debug)", "test")>> ELSE <<>>)
    \o (IF HAS_SERDE /\ serialize
        THEN <<GenAttr(on, "derive(Deserialize)", "always"),
               GenAttr(on, "derive(Serialize)", "always")>>
        ELSE <<>>)

attrs_for_both(on, serialize) ==
    <<GenAttr(on, "repr(transparent)", "always"),
      GenAttr(on, "derive(Clone)", "always"),
      GenAttr(on, "derive(Debug)", "not_test")>>
    \o (IF ~HAS_TEST_IMPLS THEN <<GenAttr(on, "derive(Debug)", "test")>> ELSE <<>>)
    \o (IF HAS_SERDE
        THEN IF serialize
             THEN <<GenAttr(on, "derive(Deserialize)", "always"),
                    GenAttr(on, "derive(Serialize)", "always")>>
             ELSE <<GenAttr(on, "derive(Deserialize)", "always")>>
        ELSE <<>>)

\* test_impls emitting nothing when the test_impls feature is on
test_impls_without_feature_only(name) ==
    IF ~HAS_TEST_IMPLS
    THEN <<Impl("Debug", name, "test", ""), Impl("PartialEq", name, "test", "")>>
    ELSE <<>>

test_impls(name) ==
    <<Impl("Debug", name, "test", ""), Impl("PartialEq", name, "test", "")>>

\* wrapper_impls marking the wrapper serializable whenever serde is on
wrapper_impls_serde_only(serialize, wrapper) ==
    <<Impl("CloneableSecret", wrapper, "always", ""),
      Impl("DebugSecret", wrapper, "always", ""),
      Impl("Zeroize", wrapper, "always", "")>>
    \o (IF HAS_SERDE
        THEN <<Impl("SerializableSecret", wrapper, "always", "")>>
        ELSE <<>>)

wrapper_impls(serialize, wrapper) ==
    <<Impl("CloneableSecret", wrapper, "always", ""),
      Impl("DebugSecret", wrapper, "always", ""),
      Impl("Zeroize", wrapper, "always", "")>>
    \o (IF serialize /\ HAS_SERDE
        THEN <<Impl("SerializableSecret", wrapper, "always", "")>>
        ELSE <<>>)

expose_secret_impl(name, inner) == <<Impl("ExposeSecret", name, "always", inner)>>

secret_microtype_impl(name, wrapper, inner) ==
    <<Impl("SecretMicrotype", name, "always", inner)>>

\* Ident::new(&format!("__Wrapper{}", name), name.span())
wrapper_ident(name) == "__Wrapper" \o name

\* generate_structs deriving Serialize on the outer struct only
generate_structs_outer_only(name, inner, vis, extra_attrs, serialize) ==
    LET wrapper == wrapper_ident(name)
    IN UserAttrs(name, extra_attrs)
       \o attrs_for_both(name, serialize)
       \o <<Struct(name, vis, "private", "Secret<" \o wrapper \o ">")>>
       \o attrs_for_both(wrapper, FALSE)
       \o <<Struct(wrapper, "inherited", "private", inner)>>

generate_structs(name, inner, vis, extra_attrs, serialize) ==
    LET wrapper == wrapper_ident(name)
    IN UserAttrs(name, extra_attrs)
       \o attrs_for_both(name, serialize)
       \o <<Struct(name, vis, "private", "Secret<" \o wrapper \o ">")>>
       \o attrs_for_both(wrapper, serialize)
       \o <<Struct(wrapper, "inherited", "private", inner)>>

secret_string_impls(name) ==
    <<Impl("FromStr", name, "always", "Infallible"),
      Impl("AsRef<str>", name, "always", "")>>

secret_type_specific_impls(name, type_annotation) ==
    CASE type_annotation = "None" -> Generated(<<>>)
      [] type_annotation = "String" -> Generated(secret_string_impls(name))
      [] OTHER -> Panicked

generate_secret(inner, name, extra_attrs, vis, special_attrs) ==
    LET serialize == special_attrs.secret.serialize
        wrapper == wrapper_ident(name)
        type_specific_impls ==
            secret_type_specific_impls(name, special_attrs.type_annotation)
    IN IF ~special_attrs.secret.some \/ type_specific_impls.panic THEN Panicked
       ELSE Generated(generate_structs(name, inner, vis, extra_attrs, serialize)
                      \o wrapper_impls(serialize, wrapper)
                      \o expose_secret_impl(name, inner)
                      \o secret_microtype_impl(name, wrapper, inner)
                      \o test_impls(name)
                      \o type_specific_impls.tokens)

(***************************************************************************)
(* codegen/mod.rs                                                           *)
(***************************************************************************)
\* what one call of generate_single did: the result of strip_special_attrs,
\* the branch taken and what the branch returned
Single(strip, route, gen) ==
    [strip |-> strip, route |-> route, panic |-> gen.panic, tokens |-> gen.tokens]

\* generate_single testing the secret feature before the serde feature
generate_single_secret_check_first(microtype) ==
    LET strip == strip_special_attrs(microtype.attrs)
        special_attrs == strip.special_attrs
        secret == special_attrs.secret
    IN IF ~strip.ok THEN Single(strip, "strip_err", Generated(strip.err))
       ELSE IF ~secret.some
       THEN Single(strip, "normal",
                   generate_normal(microtype.inner, microtype.name, microtype.vis,
                                   strip.attrs, special_attrs))
       ELSE IF ~HAS_SECRET
       THEN Single(strip, "secret_feature_missing",
                   Generated(secret_feature_missing(secret.path)))
       ELSE IF ~HAS_SERDE /\ secret.serialize
       THEN Single(strip, "serialize_without_serde",
                   Generated(serialize_without_serde(secret.path)))
       ELSE Single(strip, "secret",
                   generate_secret(microtype.inner, microtype.name, strip.attrs,
                                   microtype.vis, special_attrs))

generate_single(microtype) ==
    LET strip == strip_special_attrs(microtype.attrs)
        special_attrs == strip.special_attrs
        secret == special_attrs.secret
    IN IF ~strip.ok THEN Single(strip, "strip_err", Generated(strip.err))
       ELSE IF ~HAS_SERDE /\ secret.some /\ secret.serialize
       THEN Single(strip, "serialize_without_serde",
                   Generated(serialize_without_serde(secret.path)))
       ELSE IF ~secret.some
       THEN Single(strip, "normal",
                   generate_normal(microtype.inner, microtype.name, microtype.vis,
                                   strip.attrs, special_attrs))
       ELSE IF HAS_SECRET
       THEN Single(strip, "secret",
                   generate_secret(microtype.inner, microtype.name, strip.attrs,
                                   microtype.vis, special_attrs))
       ELSE Single(strip, "secret_feature_missing",
                   Generated(secret_feature_missing(secret.path)))

(***************************************************************************)
(* The invocation: microtype() in lib.rs calls flatten, then codegen, whose  *)
(* loop calls generate_single once per microtype and extends the stream.    *)
(***************************************************************************)
Invocations ==
    (AttrInvocations(MaxAttrs) \X FlatFeatures)
    \cup (AttrInvocations(MaxGenAttrs) \X AllFeatures)
    \cup (SplitInvocations \X FlatFeatures)
    \cup (FlatInvocations \X FlatFeatures)
    \cup (DieselInvocations \X FlatFeatures)
    \cup (MixedInvocations \X FlatFeatures)
    \cup (ClashInvocations \X FlatFeatures)

\* no generated type is in use
Idle ==
    [stage |-> "idle", ty |-> "", x |-> "", via |-> "", to |-> "", obj |-> <<>>,
     out |-> [mode |-> "", val |-> <<>>]]

\* nothing is left to parse: the invocation starts from its parsed blocks
NoSource == [tokens |-> <<>>, cursor |-> 1]

Init ==
    /\ \E inv \in Invocations : decls = inv[1] /\ features = inv[2]
    /\ pc = "parsed"
    /\ microtypes = <<>>
    /\ idx = 1
    /\ stream = <<>>
    /\ results = <<>>
    /\ src = NoSource
    /\ rt = Idle

\* let microtypes = flatten(microtype);
Flatten ==
    /\ pc = "parsed"
    /\ microtypes' = flatten(decls)
    /\ pc' = "codegen"
    /\ UNCHANGED <<features, decls, idx, stream, results, src, rt>>

\* CodegenStep putting each spec's tokens in front of the stream
CodegenStep_prepend ==
    /\ pc = "codegen"
    /\ idx <= Len(microtypes)
    /\ LET single == generate_single(microtypes[idx])
       IN /\ results' = Append(results, single)
          /\ IF single.panic
             THEN pc' = "panicked" /\ UNCHANGED <<idx, stream>>
             ELSE /\ stream' = single.tokens \o stream
                  /\ idx' = idx + 1
                  /\ pc' = pc
    /\ UNCHANGED <<features, decls, microtypes, src, rt>>

\* CodegenStep returning the first error it meets instead of going on
CodegenStep_stop_at_error ==
    /\ pc = "codegen"
    /\ idx <= Len(microtypes)
    /\ LET single == generate_single(microtypes[idx])
           failed == \E j \in DOMAIN single.tokens : single.tokens[j].k = "compile_error"
       IN /\ results' = Append(results, single)
          /\ IF single.panic
             THEN pc' = "panicked" /\ UNCHANGED <<idx, stream>>
             ELSE IF failed
             THEN pc' = "done" /\ stream' = single.tokens /\ idx' = idx + 1
             ELSE /\ stream' = stream \o single.tokens
                  /\ idx' = idx + 1
                  /\ pc' = pc
    /\ UNCHANGED <<features, decls, microtypes, src, rt>>

\* one iteration of codegen's loop; a panic in generate_single unwinds out
\* of the macro and the stream is never returned
CodegenStep ==
    /\ pc = "codegen"
    /\ idx <= Len(microtypes)
    /\ LET single == generate_single(microtypes[idx])
       IN /\ results' = Append(results, single)
          /\ IF single.panic
             THEN pc' = "panicked" /\ UNCHANGED <<idx, stream>>
             ELSE /\ stream' = stream \o single.tokens
                  /\ idx' = idx + 1
                  /\ pc' = pc
    /\ UNCHANGED <<features, decls, microtypes, src, rt>>

\* codegen returns the stream
CodegenReturn ==
    /\ pc = "codegen"
    /\ idx > Len(microtypes)
    /\ pc' = "done"
    /\ UNCHANGED <<features, decls, microtypes, idx, stream, results, src, rt>>

Next == Flatten \/ CodegenStep \/ CodegenReturn

Spec == Init /\ [][Next]_vars

(***************************************************************************)
(* Vocabulary of the properties.                                            *)
(***************************************************************************)
Flattened == pc # "parsed"

RECURSIVE NamesBefore(_)
\* number of names declared in the blocks before block b
NamesBefore(b) == IF b = 1 THEN 0 ELSE NamesBefore(b - 1) + Len(decls[b - 1].idents)

TotalNames == NamesBefore(Len(decls) + 1)

\* the stream is exactly one compile_error! with this message at this span
IsError(tokens, msg, span) ==
    /\ Len(tokens) = 1
    /\ tokens[1].k = "compile_error"
    /\ tokens[1].what = msg
    /\ tokens[1].span = span

\* the calls of generate_single made so far
Calls == DOMAIN results

C2_FlattenOnePerName ==
    Flattened =>
        /\ pc \in {"codegen", "done", "panicked"}
        /\ Len(microtypes) = TotalNames
        /\ \A b \in DOMAIN decls : \A i \in DOMAIN decls[b].idents :
              LET k == NamesBefore(b) + i
              IN /\ k \in DOMAIN microtypes
                 /\ microtypes[k].name = decls[b].idents[i].ident
                 /\ microtypes[k].inner = decls[b].inner
                 /\ microtypes[k].vis = decls[b].vis

\* flattened: two blocks of different inner type and visibility, two names each
C2_Witness ==
    /\ Flattened
    /\ Len(decls) = 2
    /\ Len(decls[1].idents) = 2
    /\ Len(decls[2].idents) = 2
    /\ decls[1].inner # decls[2].inner
    /\ decls[1].vis # decls[2].vis
    /\ Len(microtypes) = 4

(***************************************************************************)
(* C3: an annotation list with two or more secret markers makes             *)
(* strip_special_attrs return the duplicate-secret error, located at the    *)
(* second secret marker in list order, whatever the markers' arguments and  *)
(* the other annotations are.                                               *)
(***************************************************************************)
C3_DuplicateSecret ==
    \A k \in Calls :
        LET attrs == microtypes[k].attrs
        IN Cardinality(Marked(attrs, "secret")) >= 2 =>
              /\ ~results[k].strip.ok
              /\ IsError(results[k].strip.err, "duplicate secret attribute found",
                         AttrSpan(attrs[NthMarked(attrs, "secret", 2)]))

\* strip_special_attrs has run on the list of `#[secret(serialize)] i64 {
\* #[secret = ..] A }`: the name's malformed marker is first in the list, the
\* block's well-formed one second, and the error points at the block's
C3_Witness ==
    \E k \in Calls :
        LET attrs == microtypes[k].attrs
        IN /\ Len(attrs) = 2
           /\ attrs[1].name = "secret" /\ attrs[1].form = "name_value"
           /\ attrs[2].name = "secret" /\ attrs[2].nested = <<"serialize">>
           /\ attrs[2].pos < attrs[1].pos
           /\ ~results[k].strip.ok
           /\ results[k].strip.err[1].span.pos = attrs[2].pos

\* the one attribute of the list that carries the marker `name`
TheMarked(attrs, name) == attrs[NthMarked(attrs, name, 1)]

\* the secret pass of strip_special_attrs finds no fault in the list: no
\* secret marker, or one that is bare, `()` or `(serialize)`
SecretPassOk(attrs) ==
    \/ Marked(attrs, "secret") = {}
    \/ /\ Cardinality(Marked(attrs, "secret")) = 1
       /\ LET a == TheMarked(attrs, "secret")
          IN \/ a.form = "path"
             \/ a.form = "list" /\ a.nested \in {<<>>, <<"serialize">>}

ConflictMsg == "only one of #[int], #[string] allowed"

(***************************************************************************)
(* C4 as stated: a declaration whose annotation list carries both a string  *)
(* marker and an int marker yields the conflicting-attribute error; one     *)
(* that carries neither yields kind annotation None.  (Stated of the lists  *)
(* strip_type_annotation is called on: those that pass the secret pass.)    *)
(***************************************************************************)
C4_Original ==
    \A k \in Calls :
        LET attrs == microtypes[k].attrs
            both == Marked(attrs, "string") # {} /\ Marked(attrs, "int") # {}
            neither == Marked(attrs, "string") = {} /\ Marked(attrs, "int") = {}
        IN SecretPassOk(attrs) =>
              /\ both => /\ ~results[k].strip.ok
                         /\ results[k].strip.err[1].what = ConflictMsg
              /\ neither => /\ results[k].strip.ok
                            /\ results[k].strip.special_attrs.type_annotation = "None"

(***************************************************************************)
(* C4 as amended: a declaration whose annotation list carries exactly one   *)
(* string marker and exactly one int marker, and no secret fault, yields    *)
(* the conflicting-attribute error and nothing else; a repeated string or   *)
(* int marker, or a secret fault, is reported instead of the conflict.  A   *)
(* declaration that carries neither marker and has no secret fault yields   *)
(* kind annotation None.                                                    *)
(***************************************************************************)
C4_StringIntConflict ==
    \A k \in Calls :
        LET attrs == microtypes[k].attrs
            ns == Cardinality(Marked(attrs, "string"))
            ni == Cardinality(Marked(attrs, "int"))
            strip == results[k].strip
        IN /\ (ns = 1 /\ ni = 1 /\ SecretPassOk(attrs)) =>
                  /\ ~strip.ok
                  /\ IsError(strip.err, ConflictMsg, CallSite)
                  /\ results[k].tokens = strip.err
           /\ (ns >= 1 /\ ni >= 1 /\ (ns >= 2 \/ ni >= 2 \/ ~SecretPassOk(attrs))) =>
                  /\ ~strip.ok
                  /\ strip.err[1].what # ConflictMsg
           /\ (ns = 0 /\ ni = 0 /\ SecretPassOk(attrs)) =>
                  /\ strip.ok
                  /\ strip.special_attrs.type_annotation = "None"

\* generate_single has run on `#[int] #[secret] #[string]`: one marker of
\* each kind, int first, a well-formed secret between them
C4_Witness ==
    \E k \in Calls :
        LET attrs == microtypes[k].attrs
        IN /\ Len(attrs) = 3
           /\ attrs[1].name = "int"
           /\ attrs[2].name = "secret" /\ attrs[2].form = "path"
           /\ attrs[3].name = "string"
           /\ IsError(results[k].tokens, ConflictMsg, CallSite)

(***************************************************************************)
(* C5: with exactly one secret marker, a bare marker or an empty argument   *)
(* list gives secret present with serialize unset; the single argument      *)
(* serialize gives serialize set; every other argument list gives the       *)
(* expected-either error, located at the unrecognized argument.             *)
(***************************************************************************)
C5_SecretArguments ==
    \A k \in Calls :
        LET attrs == microtypes[k].attrs
            strip == results[k].strip
            a == TheMarked(attrs, "secret")
            unrecognized == CHOOSE j \in DOMAIN a.nested :
                              /\ a.nested[j] # "serialize"
                              /\ \A h \in 1..(j - 1) : a.nested[h] = "serialize"
        IN Cardinality(Marked(attrs, "secret")) = 1 =>
              /\ (a.form = "path" \/ (a.form = "list" /\ a.nested = <<>>)) =>
                    (strip.ok => /\ strip.special_attrs.secret.some
                                 /\ ~strip.special_attrs.secret.serialize)
              /\ (a.form = "list" /\ a.nested = <<"serialize">>) =>
                    (strip.ok => /\ strip.special_attrs.secret.some
                                 /\ strip.special_attrs.secret.serialize)
              /\ (a.form = "list" /\ a.nested \notin {<<>>, <<"serialize">>}) =>
                    /\ ~strip.ok
                    /\ IsError(strip.err,
                               "expected either #[secret] or #[secret(serialize)]",
                               NestedSpan(a, unrecognized))

(***************************************************************************)
(* C6: for a spec whose validated secret attribute has serialize set, with  *)
(* the serde feature off, generate_single returns the serialize-has-no-     *)
(* effect error located at the secret marker, and no type or impl.          *)
(***************************************************************************)
C6_SerializeWithoutSerde ==
    \A k \in Calls :
        LET attrs == microtypes[k].attrs
            strip == results[k].strip
        IN (strip.ok /\ strip.special_attrs.secret.serialize /\ ~features.serde) =>
              /\ ~results[k].panic
              /\ IsError(results[k].tokens,
                         "#[secret(serialize)] has no effect unless the serde_support feature is enabled]",
                         PathSpan(TheMarked(attrs, "secret")))
              /\ results[k].route = "serialize_without_serde"

\* generate_single has run on a valid `#[string] #[secret(serialize)]` with
\* serde off and the secret feature on
C6_Witness ==
    \E k \in Calls :
        LET attrs == microtypes[k].attrs
        IN /\ Len(attrs) = 2
           /\ attrs[1].name = "string"
           /\ attrs[2].name = "secret" /\ attrs[2].nested = <<"serialize">>
           /\ ~features.serde /\ features.secret
           /\ results[k].strip.ok
           /\ results[k].tokens[1].k = "compile_error"

SecretMissingMsg == "#[secret] is only supported when the secret feature is enabled"

\* the first pre-check of generate_single lets the spec through
SerializePreCheckPasses(strip) ==
    ~(strip.special_attrs.secret.serialize /\ ~features.serde)

(***************************************************************************)
(* C7 as stated: for a spec whose validated attributes contain a secret     *)
(* marker, with the secret feature off generate_single returns the          *)
(* secret-feature error located at the secret marker and never runs secret  *)
(* generation; with it on (and the serialize pre-check passing) it runs     *)
(* secret generation and never normal generation.                           *)
(***************************************************************************)
C7_Original ==
    \A k \in Calls :
        LET attrs == microtypes[k].attrs
            strip == results[k].strip
        IN (strip.ok /\ strip.special_attrs.secret.some) =>
              /\ ~features.secret =>
                    /\ IsError(results[k].tokens, SecretMissingMsg,
                               PathSpan(TheMarked(attrs, "secret")))
                    /\ results[k].route # "secret"
              /\ (features.secret /\ SerializePreCheckPasses(strip)) =>
                    results[k].route = "secret"

(***************************************************************************)
(* C7 as amended: for a spec whose validated attributes contain a secret    *)
(* marker and pass the serialize pre-check, with the secret feature off     *)
(* generate_single returns the secret-feature error located at the secret   *)
(* marker, and with it on it runs secret generation and never normal        *)
(* generation; with the feature off secret generation never runs, and a     *)
(* spec that fails the serialize pre-check gets the serialize error         *)
(* whatever the secret feature is.                                          *)
(***************************************************************************)
C7_SecretFeature ==
    \A k \in Calls :
        LET attrs == microtypes[k].attrs
            strip == results[k].strip
        IN (strip.ok /\ strip.special_attrs.secret.some) =>
              /\ (~features.secret /\ SerializePreCheckPasses(strip)) =>
                    /\ IsError(results[k].tokens, SecretMissingMsg,
                               PathSpan(TheMarked(attrs, "secret")))
                    /\ results[k].route = "secret_feature_missing"
              /\ ~features.secret => results[k].route # "secret"
              /\ (features.secret /\ SerializePreCheckPasses(strip)) =>
                    results[k].route = "secret"
              /\ ~SerializePreCheckPasses(strip) =>
                    results[k].route = "serialize_without_serde"

\* generate_single has run on a valid `#[secret(serialize)]` with serde on
\* and the secret feature off
C7_Witness ==
    \E k \in Calls :
        LET attrs == microtypes[k].attrs
        IN /\ Len(attrs) = 1
           /\ attrs[1].name = "secret" /\ attrs[1].nested = <<"serialize">>
           /\ features.serde /\ ~features.secret
           /\ results[k].tokens[1].what = SecretMissingMsg

\* the stream holds a token of this kind, for this type, of this content
HasTok(tokens, k, on, what) ==
    \E j \in DOMAIN tokens :
        tokens[j].k = k /\ tokens[j].on = on /\ tokens[j].what = what

HasImpl(tokens, on, trait) == HasTok(tokens, "impl", on, trait)

\* the traits each capability group implements
SecretGroup ==
    {"ExposeSecret", "SecretMicrotype", "CloneableSecret", "DebugSecret", "Zeroize",
     "SerializableSecret"}

StringGroup == {"FromStr", "Display", "From<&str>", "AsRef<str>"}

IntGroup ==
    {"Display", "Octal", "LowerHex", "UpperHex", "Binary", "LowerExp", "UpperExp",
     "Add", "Sub", "Mul", "Div", "Rem",
     "AddAssign", "SubAssign", "MulAssign", "DivAssign", "RemAssign", "FromStr"}

ColumnGroup == {"FromSql", "ToSql"}

\* the stream holds an impl of a trait of the group, or (for the secret
\* group) defines a type other than `name`
HasGroup(tokens, group) ==
    \E j \in DOMAIN tokens : tokens[j].k = "impl" /\ tokens[j].what \in group

DefinesOnly(tokens, name) ==
    \A j \in DOMAIN tokens : tokens[j].k = "struct" => tokens[j].on = name

\* the spec's annotation list carries no control marker at all
Unmarked(attrs) ==
    \A j \in DOMAIN attrs : attrs[j].name \notin {"secret", "string", "int", "diesel"}

(***************************************************************************)
(* C8: for a spec without secret, kind or column markers, under every       *)
(* feature combination, the output holds the wrapper type definition, the   *)
(* Microtype impl and the From<inner> impl; Deref and DerefMut exactly when *)
(* deref_impls is on; the transparent serde derive exactly when serde is    *)
(* on; and no secret, kind or column-mapping group.  `String { A, B }`      *)
(* gives two such outputs.                                                  *)
(***************************************************************************)
C8_NormalPlan ==
    \A k \in Calls :
        LET m == microtypes[k]
            tokens == results[k].tokens
        IN Unmarked(m.attrs) =>
              /\ ~results[k].panic
              /\ results[k].route = "normal"
              /\ \E j \in DOMAIN tokens :
                    /\ tokens[j].k = "struct" /\ tokens[j].on = m.name
                    /\ tokens[j].ty = m.inner /\ tokens[j].what = m.vis
              /\ DefinesOnly(tokens, m.name)
              /\ HasImpl(tokens, m.name, "Microtype")
              /\ HasImpl(tokens, m.name, "From<inner>")
              /\ HasImpl(tokens, m.name, "Deref") <=> features.deref_impls
              /\ HasImpl(tokens, m.name, "DerefMut") <=> features.deref_impls
              /\ HasTok(tokens, "attr", m.name, "derive(Deserialize, Serialize)")
                    <=> features.serde
              /\ HasTok(tokens, "attr", m.name, "serde(transparent)") <=> features.serde
              /\ ~HasGroup(tokens, SecretGroup \cup StringGroup \cup IntGroup \cup ColumnGroup)
              /\ \A j \in DOMAIN tokens : tokens[j].k # "compile_error"

\* codegen has returned for `String { A, B }`: two outputs, no markers
C8_Witness ==
    /\ pc = "done"
    /\ Len(decls) = 1
    /\ decls[1].attrs = <<>>
    /\ Len(decls[1].idents) = 2
    /\ \A i \in 1..2 : decls[1].idents[i].attributes = <<>>
    /\ Len(results) = 2
    /\ results[1].route = "normal" /\ results[2].route = "normal"

(***************************************************************************)
(* C9: for a normal-variant spec whose kind annotation is Int, generation   *)
(* completes and the output holds the integer capability group: the seven   *)
(* numeric formats, the five operators with their assign variants, FromStr. *)
(***************************************************************************)
C9_IntGroup ==
    \A k \in Calls :
        LET m == microtypes[k]
            want == generate_int_impls(m.name, m.inner)
        IN (results[k].route = "normal"
            /\ results[k].strip.special_attrs.type_annotation = "Int") =>
              /\ ~results[k].panic
              /\ \A trait \in IntGroup : HasImpl(results[k].tokens, m.name, trait)
              /\ \A j \in DOMAIN want :
                    \E h \in DOMAIN results[k].tokens : results[k].tokens[h] = want[j]

(***************************************************************************)
(* C10: for a normal-variant spec whose kind annotation is String, the      *)
(* output holds all four string capabilities: FromStr, Display,             *)
(* From<&str> and AsRef<str>.                                               *)
(***************************************************************************)
C10_StringGroup ==
    \A k \in Calls :
        LET m == microtypes[k]
            want == generate_string_impls(m.name, m.inner)
        IN (results[k].route = "normal"
            /\ results[k].strip.special_attrs.type_annotation = "String") =>
              /\ ~results[k].panic
              /\ \A trait \in StringGroup : HasImpl(results[k].tokens, m.name, trait)
              /\ \A j \in DOMAIN want :
                    HasImpl(results[k].tokens, m.name, want[j].what)

\* the marker's argument is a well-formed `name = Type`
WellFormedColumn(a) ==
    /\ a.form = "list"
    /\ \E n \in {"sql_type", "other"}, t \in {"Text", "Integer"} : a.nested = <<n, "=", t>>

(***************************************************************************)
(* C11: column-mapping extraction accepts at most one column-mapping marker *)
(* per spec: two or more markers give a duplicate error, one marker with a  *)
(* well-formed name = Type argument gives that type, and one marker with a  *)
(* malformed argument gives a parse error, never a silent absent.           *)
(***************************************************************************)
C11_ColumnMappingExtraction ==
    \A k \in Calls :
        LET attrs == microtypes[k].attrs
            n == Cardinality(Marked(attrs, "diesel"))
            a == TheMarked(attrs, "diesel")
            found == find_diesel_attr(attrs)
        IN /\ n >= 2 => found.kind = "Err"
           /\ (n = 1 /\ WellFormedColumn(a)) => found = SomeType(a.nested[3])
           /\ (n = 1 /\ ~WellFormedColumn(a)) => found.kind = "Err"

(***************************************************************************)
(* C12: for a normal-variant spec that carries a column-mapping marker the  *)
(* output of generate_single holds the column-mapping pair, FromSql decoding *)
(* through the constructor and ToSql encoding the inner value, both for the *)
(* marker's type; for a spec without the marker the pair is absent.         *)
(***************************************************************************)
C12_ColumnMappingPair ==
    \A k \in Calls :
        LET m == microtypes[k]
            tokens == results[k].tokens
            n == Cardinality(Marked(m.attrs, "diesel"))
            a == TheMarked(m.attrs, "diesel")
            has(t) == \E j \in DOMAIN tokens : tokens[j] = t
        IN (results[k].route = "normal" /\ ~results[k].panic) =>
              /\ (n = 1 /\ WellFormedColumn(a)) =>
                    /\ has(from_sql_not_secret(a.nested[3], m.inner, m.name))
                    /\ has(to_sql_not_secret(a.nested[3], m.inner, m.name))
              /\ n = 0 => ~HasGroup(tokens, ColumnGroup)

\* impls through which the inner value leaves a type by ownership or by
\* mutable reference: Microtype (into_inner, inner_mut, convert), DerefMut
OwningOrMutable == {"Microtype", "DerefMut"}

\* impls that hand out or render the inner value through a shared reference
BorrowedRead ==
    {"ExposeSecret", "Deref", "AsRef<str>", "Display", "Octal", "LowerHex", "UpperHex",
     "Binary", "LowerExp", "UpperExp"}

(***************************************************************************)
(* C13: for every secret-variant spec, under every feature combination and  *)
(* kind annotation, the generated artifacts hold no accessor that yields    *)
(* the inner value by ownership or by mutable reference (no Microtype impl, *)
(* no Deref or DerefMut, no public field), and the only read access is the  *)
(* borrowed ExposeSecret accessor.                                          *)
(***************************************************************************)
C13_SecretExposure ==
    \A k \in Calls :
        LET m == microtypes[k]
            tokens == results[k].tokens
        IN (results[k].route = "secret" /\ ~results[k].panic) =>
              /\ \A j \in DOMAIN tokens :
                    /\ tokens[j].k = "impl" => tokens[j].what \notin OwningOrMutable
                    /\ tokens[j].k = "struct" => tokens[j].field = "private"
                    /\ (tokens[j].k = "impl" /\ tokens[j].cfg # "test"
                        /\ tokens[j].what \in BorrowedRead)
                          => tokens[j].what = "ExposeSecret"
              /\ HasImpl(tokens, m.name, "ExposeSecret")

\* the stream holds this generated attribute on the definition of `on`
HasGenAttr(tokens, on, what) == HasTok(tokens, "attr", on, what)

(***************************************************************************)
(* C14: for every spec with a secret marker that has no serialize argument, *)
(* under every feature combination, neither the outer type nor the hidden   *)
(* wrapper gets a Serialize derive or the SerializableSecret marker.        *)
(***************************************************************************)
C14_NoSerializeWithoutArgument ==
    \A k \in Calls :
        LET strip == results[k].strip
            tokens == results[k].tokens
        IN (strip.ok /\ strip.special_attrs.secret.some
            /\ ~strip.special_attrs.secret.serialize) =>
              \A j \in DOMAIN tokens :
                  /\ tokens[j].k = "attr" =>
                        tokens[j].what \notin {"derive(Serialize)",
                                               "derive(Deserialize, Serialize)"}
                  /\ tokens[j].k = "impl" => tokens[j].what # "SerializableSecret"

\* generate_secret has run on a plain `#[secret]` with serde on and the other
\* features off: both types are generated and both derive Deserialize
C14_Witness ==
    \E k \in Calls :
        LET m == microtypes[k]
            strip == results[k].strip
        IN /\ features.serde /\ features.secret
           /\ ~features.test_impls /\ ~features.deref_impls
           /\ strip.ok /\ strip.special_attrs.secret.some
           /\ ~strip.special_attrs.secret.serialize
           /\ results[k].route = "secret" /\ ~results[k].panic
           /\ HasTok(results[k].tokens, "struct", m.name, m.vis)
           /\ HasTok(results[k].tokens, "struct", wrapper_ident(m.name), "inherited")
           /\ HasImpl(results[k].tokens, wrapper_ident(m.name), "Zeroize")

(***************************************************************************)
(* C15: with serde on, every generated secret type, and its wrapper,        *)
(* derives Deserialize whether or not the serialize argument is present;    *)
(* it derives Serialize exactly when the argument is present.               *)
(***************************************************************************)
C15_SecretDeserialize ==
    \A k \in Calls :
        LET m == microtypes[k]
            tokens == results[k].tokens
            serialize == results[k].strip.special_attrs.secret.serialize
        IN (results[k].route = "secret" /\ ~results[k].panic /\ features.serde) =>
              \A on \in {m.name, wrapper_ident(m.name)} :
                  /\ HasGenAttr(tokens, on, "derive(Deserialize)")
                  /\ HasGenAttr(tokens, on, "derive(Serialize)") <=> serialize

\* generate_secret has run on a plain `#[secret]` with serde on: Deserialize
\* is derived and Serialize is not
C15_Witness ==
    \E k \in Calls :
        LET m == microtypes[k]
        IN /\ features.serde
           /\ results[k].route = "secret" /\ ~results[k].panic
           /\ ~results[k].strip.special_attrs.secret.serialize
           /\ HasGenAttr(results[k].tokens, m.name, "derive(Deserialize)")
           /\ ~HasGenAttr(results[k].tokens, m.name, "derive(Serialize)")

\* the stream holds a hand-written Debug impl for `on` that prints the real
\* value (test_impls: f.write_str(self.expose_secret())), compiled in `cfg`
PrintsRealValue(tokens, on, cfg) ==
    \E j \in DOMAIN tokens :
        /\ tokens[j].k = "impl" /\ tokens[j].what = "Debug"
        /\ tokens[j].on = on /\ tokens[j].cfg \in cfg

\* the stream derives Debug for `on` in the builds `cfg`: through Secret<..>
\* and DebugSecret the derived impl prints the redaction marker
DerivesRedactedDebug(tokens, on, cfg) ==
    \E j \in DOMAIN tokens :
        /\ tokens[j].k = "attr" /\ tokens[j].what = "derive(Debug)"
        /\ tokens[j].on = on /\ tokens[j].cfg = cfg

(***************************************************************************)
(* C16: for every generated secret type, under every feature combination,   *)
(* Debug in non-test builds is the derived, redacting one and never prints  *)
(* the real value; a Debug impl that prints the real value exists only when *)
(* the test_impls feature is on, and then only in test builds.              *)
(***************************************************************************)
C16_DebugRedaction ==
    \A k \in Calls :
        LET m == microtypes[k]
            tokens == results[k].tokens
        IN (results[k].route = "secret" /\ ~results[k].panic) =>
              /\ DerivesRedactedDebug(tokens, m.name, "not_test")
              /\ ~PrintsRealValue(tokens, m.name, {"always", "not_test"})
              /\ PrintsRealValue(tokens, m.name, {"test"}) => features.test_impls

\* the positions of the compile_error! invocations of a stream
Errors(tokens) == { j \in DOMAIN tokens : tokens[j].k = "compile_error" }

(***************************************************************************)
(* C17: for every spec and every feature combination generate_single ends   *)
(* in exactly one of two outcomes: artifacts with no error among them, or   *)
(* exactly one error artifact and no type or impl.  It never panics, also   *)
(* not for a spec of kind Int, normal or secret.                            *)
(***************************************************************************)
C17_SingleOutcome ==
    \A k \in Calls :
        LET tokens == results[k].tokens
        IN /\ ~results[k].panic
           /\ \/ Errors(tokens) = {}
              \/ Len(tokens) = 1 /\ Errors(tokens) = {1}

RECURSIVE Offset(_)
\* number of tokens the calls before call k returned
Offset(k) == IF k = 1 THEN 0 ELSE Offset(k - 1) + Len(results[k - 1].tokens)

\* the part of the stream that call k contributed, if the stream is the
\* concatenation of the calls' tokens in call order
Group(k) == SubSeq(stream, Offset(k) + 1, Offset(k + 1))

\* call k ended in an error artifact
Failed(k) == results[k].route \in {"strip_err", "serialize_without_serde",
                                   "secret_feature_missing"}

(***************************************************************************)
(* C18: the stream codegen builds is one group per spec in the order of the *)
(* flattened list: after k calls it is the groups of specs 1..k, each equal *)
(* to what generate_single returns for that spec alone and every type or    *)
(* impl in it belonging to that spec; when codegen returns no group is      *)
(* missing, repeated or out of place.                                       *)
(***************************************************************************)
C18_GroupsInOrder ==
    /\ Len(stream) = Offset(Len(results) + 1)
    /\ pc = "done" => Len(results) = Len(microtypes)
    /\ \A k \in Calls :
          LET m == microtypes[k]
          IN /\ Group(k) = results[k].tokens
             /\ Group(k) = generate_single(m).tokens
             /\ \A j \in DOMAIN Group(k) :
                   Group(k)[j].k # "compile_error" =>
                       Group(k)[j].on \in {m.name, wrapper_ident(m.name)}

\* codegen has returned for a block of two names, the first a secret type
\* with its wrapper, the second a normal type: two different groups, A's first
C18_Witness ==
    /\ pc = "done"
    /\ Len(microtypes) = 2
    /\ results[1].route = "secret" /\ results[2].route = "normal"
    /\ Len(Group(1)) > Len(Group(2)) /\ Len(Group(2)) > 0
    /\ \A j \in DOMAIN stream :
          stream[j].on \in {microtypes[1].name, wrapper_ident(microtypes[1].name)}
              <=> j <= Offset(2)

(***************************************************************************)
(* C19 as stated: the output of an invocation is the ordered concatenation  *)
(* of the groups of all specs when no spec fails, and otherwise the first   *)
(* error artifact met, with nothing of any later spec in it.                *)
(***************************************************************************)
C19_Original ==
    pc = "done" =>
        LET failing == { k \in Calls : Failed(k) }
            first == CHOOSE k \in failing : \A h \in failing : k <= h
        IN IF failing = {}
           THEN /\ Len(results) = Len(microtypes)
                /\ \A k \in Calls : Group(k) = results[k].tokens
           ELSE stream = results[first].tokens

(***************************************************************************)
(* C19 as amended: when codegen returns, its output is the ordered          *)
(* concatenation of the groups of all specs, where the group of a failing   *)
(* spec is its one error artifact; a failing spec stops nothing, the groups *)
(* of all later specs, artifacts or errors, follow it in the output.  When  *)
(* generate_single panics for a spec, codegen returns no output at all.     *)
(***************************************************************************)
C19_AllGroupsAndErrors ==
    /\ pc = "done" =>
          /\ Len(results) = Len(microtypes)
          /\ Len(stream) = Offset(Len(microtypes) + 1)
          /\ \A k \in Calls :
                /\ ~results[k].panic
                /\ Group(k) = results[k].tokens
                /\ Failed(k) => Len(Group(k)) = 1 /\ Errors(Group(k)) = {1}
                /\ ~Failed(k) => Len(Group(k)) > 1 /\ Errors(Group(k)) = {}
    /\ pc = "panicked" =>
          /\ results[Len(results)].panic
          /\ idx = Len(results)
    /\ (\E k \in Calls : results[k].panic) => pc = "panicked"

\* codegen has returned for a block of two names, the first with a malformed
\* secret marker, the second unmarked: the error, then B's artifacts
C19_Witness ==
    /\ pc = "done"
    /\ Len(microtypes) = 2
    /\ Failed(1) /\ ~Failed(2)
    /\ stream[1].k = "compile_error"
    /\ Len(stream) > 1
    /\ \A j \in 2..Len(stream) : stream[j].on = microtypes[2].name

\* the names of the recognized control annotations
ControlNames == {"secret", "string", "int", "diesel"}

(***************************************************************************)
(* C20: for every annotation list on which strip_special_attrs succeeds,    *)
(* the remaining list is exactly the input's annotations that are not       *)
(* control annotations, in their original order: no secret, string, int or  *)
(* column-mapping marker is left and no other annotation is lost or moved.  *)
(***************************************************************************)
C20_RemainingAttrs ==
    \A k \in Calls :
        LET attrs == microtypes[k].attrs
            strip == results[k].strip
        IN strip.ok =>
              /\ strip.attrs = SelectSeq(attrs, LAMBDA a : a.name \notin ControlNames)
              /\ \A j \in DOMAIN strip.attrs : strip.attrs[j].name \notin ControlNames

(***************************************************************************)
(* parse.rs and lib.rs: the macro's input is a buffer of token trees and a  *)
(* cursor (syn's ParseStream).  A token tree is an attribute `#[..]`, the   *)
(* keyword pub, an identifier, a comma, a literal or a brace group with its *)
(* own token trees; each knows its span: its ordinal in the buffer and, in  *)
(* a group, its ordinal in the group.                                       *)
(***************************************************************************)
TokSpan(i, j) == SpanOf(i, "token", j)

Tree(t, name, attr, body, at) ==
    [t |-> t, name |-> name, attr |-> attr, body |-> body, at |-> at]

NoAttr == Attr("", "", <<>>, 0)

\* the span of the token under the cursor: past the last token it is the
\* end of the buffer or of the group, `close`
SpanAt(input, close) == IF input = <<>> THEN close ELSE Head(input).at

\* the result of a parse function: the value and the rest of the input, or
\* the span of the token it failed at
Parsed(value, rest) == [ok |-> TRUE, value |-> value, rest |-> rest, at |-> CallSite]

ParseErr(at) == [ok |-> FALSE, value |-> <<>>, rest |-> <<>>, at |-> at]

RECURSIVE parse_outer(_)
\* Attribute::parse_outer: the attributes the input starts with
parse_outer(input) ==
    IF input # <<>> /\ Head(input).t = "attr"
    THEN LET more == parse_outer(Tail(input))
         IN Parsed(<<Head(input).attr>> \o more.value, more.rest)
    ELSE Parsed(<<>>, input)

\* AttrIdent::parse
AttrIdent_parse(input, close) ==
    LET attributes == parse_outer(input)
        rest == attributes.rest
    IN IF rest # <<>> /\ Head(rest).t = "ident"
       THEN Parsed(AttrIdent(attributes.value, Head(rest).name), Tail(rest))
       ELSE ParseErr(SpanAt(rest, close))

RECURSIVE parse_terminated(_, _)
\* Punctuated::<AttrIdent, Token![,]>::parse_terminated
parse_terminated(content, close) ==
    IF content = <<>> THEN Parsed(<<>>, <<>>)
    ELSE LET value == AttrIdent_parse(content, close)
         IN IF ~value.ok THEN value
            ELSE IF value.rest = <<>> THEN Parsed(<<value.value>>, <<>>)
            ELSE IF Head(value.rest).t # "comma" THEN ParseErr(Head(value.rest).at)
            ELSE LET more == parse_terminated(Tail(value.rest), close)
                 IN IF more.ok THEN Parsed(<<value.value>> \o more.value, <<>>)
                    ELSE more

\* MicrotypeDecl::parse
MicrotypeDecl_parse(input, close) ==
    LET attrs == parse_outer(input)
        has_pub == attrs.rest # <<>> /\ Head(attrs.rest).t = "pub"
        vis == IF has_pub THEN "pub" ELSE "inherited"
        after_vis == IF has_pub THEN Tail(attrs.rest) ELSE attrs.rest
    IN IF after_vis = <<>> \/ Head(after_vis).t # "ident"
       THEN ParseErr(SpanAt(after_vis, close))
       ELSE LET inner == Head(after_vis).name
                after_inner == Tail(after_vis)
            IN IF after_inner = <<>> \/ Head(after_inner).t # "group"
               THEN ParseErr(SpanAt(after_inner, close))
               ELSE LET group == Head(after_inner)
                        idents == parse_terminated(group.body,
                                                   TokSpan(group.at.pos, 0))
                    IN IF ~idents.ok THEN idents
                       ELSE Parsed(MicrotypeDecl(attrs.value, vis, inner, idents.value),
                                   Tail(after_inner))

\* the tokens the cursor has not passed
Remaining == SubSeq(src.tokens, src.cursor, Len(src.tokens))

\* ParseDecl ending the loop at a malformed block and returning the blocks
\* parsed before it
ParseDecl_keep_parsed ==
    /\ pc = "parsing"
    /\ Remaining # <<>>
    /\ LET decl == MicrotypeDecl_parse(Remaining, TokSpan(0, 0))
       IN IF decl.ok
          THEN /\ decls' = Append(decls, decl.value)
               /\ src' = [src EXCEPT !.cursor = Len(src.tokens) - Len(decl.rest) + 1]
               /\ UNCHANGED <<pc, stream>>
          ELSE /\ pc' = "parsed"
               /\ UNCHANGED <<decls, stream, src>>
    /\ UNCHANGED <<features, microtypes, idx, results, rt>>

\* one iteration of MicrotypeMacro::parse's loop.  On an error `?` returns
\* it, the blocks parsed so far are dropped, and parse_macro_input! makes
\* the error the macro's whole output
ParseDecl ==
    /\ pc = "parsing"
    /\ Remaining # <<>>
    /\ LET decl == MicrotypeDecl_parse(Remaining, TokSpan(0, 0))
       IN IF decl.ok
          THEN /\ decls' = Append(decls, decl.value)
               /\ src' = [src EXCEPT !.cursor = Len(src.tokens) - Len(decl.rest) + 1]
               /\ UNCHANGED <<pc, stream>>
          ELSE /\ decls' = <<>>
               /\ stream' = compile_error("syn parse error", decl.at)
               /\ pc' = "parse_error"
               /\ UNCHANGED src
    /\ UNCHANGED <<features, microtypes, idx, results, rt>>

\* the loop ends when input.is_empty(): Ok(Self(result))
ParseReturn ==
    /\ pc = "parsing"
    /\ Remaining = <<>>
    /\ pc' = "parsed"
    /\ UNCHANGED <<features, decls, microtypes, idx, stream, results, src, rt>>

(***************************************************************************)
(* The source texts of the parsed invocations: each block is written from   *)
(* a shape, with or without a secret marker, with one or two names, and     *)
(* well-formed, without its braces, or with a literal where its last name   *)
(* should be.                                                               *)
(***************************************************************************)
SrcShapes ==
    [marked : BOOLEAN, ni : {1, 2}, fault : {"none", "no_brace", "bad_ident"}]

\* the name the i-th name of block b is given
SrcName(b, i) == IdentNames[(b - 1) * 2 + i]

\* the tokens between the braces of a block, the group being token g
SrcBody(shape, b, g) ==
    [j \in 1..(2 * shape.ni - 1) |->
        IF j % 2 = 0 THEN Tree("comma", "", NoAttr, <<>>, TokSpan(g, j))
        ELSE IF shape.fault = "bad_ident" /\ j = 2 * shape.ni - 1
        THEN Tree("lit", "", NoAttr, <<>>, TokSpan(g, j))
        ELSE Tree("ident", SrcName(b, (j + 1) \div 2), NoAttr, <<>>, TokSpan(g, j))]

\* number of tokens a block takes in the buffer
SrcLen(shape) ==
    (IF shape.marked THEN 1 ELSE 0) + 1 + (IF shape.fault = "no_brace" THEN 0 ELSE 1)

RECURSIVE SrcStart(_, _)
\* ordinal of the first token of block b
SrcStart(shapes, b) ==
    IF b = 1 THEN 1 ELSE SrcStart(shapes, b - 1) + SrcLen(shapes[b - 1])

\* the tokens of block b
SrcBlock(shapes, b) ==
    LET shape == shapes[b]
        first == SrcStart(shapes, b)
        n == IF shape.marked THEN 1 ELSE 0
    IN (IF shape.marked
        THEN <<Tree("attr", "", Attr("secret", "path", <<>>, b), <<>>, TokSpan(first, 0))>>
        ELSE <<>>)
       \o <<Tree("ident", "String", NoAttr, <<>>, TokSpan(first + n, 0))>>
       \o (IF shape.fault = "no_brace" THEN <<>>
           ELSE <<Tree("group", "", NoAttr, SrcBody(shape, b, first + n + 1),
                       TokSpan(first + n + 1, 0))>>)

RECURSIVE SrcFrom(_, _)
SrcFrom(shapes, b) ==
    IF b > Len(shapes) THEN <<>> ELSE SrcBlock(shapes, b) \o SrcFrom(shapes, b + 1)

\* the buffer of an invocation written from these shapes
Source(shapes) == [tokens |-> SrcFrom(shapes, 1), cursor |-> 1]

Sources == { Source(shapes) : shapes \in SeqUpTo(SrcShapes, MaxSrcBlocks) }

\* microtype(tokens): parse_macro_input!, then flatten and codegen
MacroInit ==
    /\ \E s \in Sources, f \in FlatFeatures : src = s /\ features = f
    /\ pc = "parsing"
    /\ decls = <<>>
    /\ microtypes = <<>>
    /\ idx = 1
    /\ stream = <<>>
    /\ results = <<>>
    /\ rt = Idle

(***************************************************************************)
(* The generated code in use.  A value is written as the list of the tuple  *)
(* structs around it, outermost first, ending in the primitive: Email("x")  *)
(* is <<"Email", "x">>.  The methods are the bodies that                    *)
(* generate_microtype_impl, secret_microtype_impl and expose_secret_impl    *)
(* write into the impls.                                                    *)
(***************************************************************************)
Values == {"x", "user@example.com"}

\* Name(inner)
TupleStruct(name, inner) == <<name>> \o inner

\* self.0
Field0(self) == Tail(self)

\* secrecy::Secret::new and Secret's own expose_secret
Secret_new(value) == TupleStruct("Secret", value)

Secret_expose_secret(self) == Field0(self)

\* what a method hands back: the value itself, or a reference to it
Owned(val) == [mode |-> "owned", val |-> val]

SharedRef(val) == [mode |-> "shared", val |-> val]

MutRef(val) == [mode |-> "mut", val |-> val]

\* Microtype::new keeping nothing of its argument
Microtype_new_empty(name, inner) == TupleStruct(name, <<"">>)

\* fn new(inner: Self::Inner) -> Self { Self(inner) }
Microtype_new(name, inner) == TupleStruct(name, inner)

\* fn into_inner(self) -> Self::Inner { self.0 }
into_inner(self) == Owned(Field0(self))

\* fn inner(&self) -> &Self::Inner { &self.0 }
inner(self) == SharedRef(Field0(self))

\* fn inner_mut(&mut self) -> &mut Self::Inner { &mut self.0 }
inner_mut(self) == MutRef(Field0(self))

\* fn convert<T: Microtype<Inner = Self::Inner>>(self) -> T { T::new(self.0) }
convert(self, T) == Owned(Microtype_new(T, Field0(self)))

\* fn new(inner: Self::Inner) -> Self { Self(Secret::new(#wrapper(inner))) }
SecretMicrotype_new(name, wrapper, value) ==
    TupleStruct(name, Secret_new(TupleStruct(wrapper, value)))

\* fn expose_secret(&self) -> &#inner { &self.0.expose_secret().0 }
expose_secret(self) == SharedRef(Field0(Secret_expose_secret(Field0(self))))

\* the output compiles into the caller's crate: it holds no compile_error!
Compiles == \A j \in DOMAIN stream : stream[j].k # "compile_error"

\* the inner type of a generated normal type: the type of its field
InnerOf(name) ==
    LET j == CHOOSE j \in DOMAIN stream : stream[j].k = "struct" /\ stream[j].on = name
    IN stream[j].ty

\* the caller builds a value of a generated type with the type's `new`
Construct ==
    /\ pc = "done"
    /\ Compiles
    /\ rt.stage = "idle"
    /\ \E j \in DOMAIN stream, x \in Values :
          /\ stream[j].k = "impl"
          /\ stream[j].what \in {"Microtype", "SecretMicrotype"}
          /\ rt' = [rt EXCEPT
                      !.stage = "built", !.ty = stream[j].on, !.x = x,
                      !.via = stream[j].what,
                      !.obj = IF stream[j].what = "Microtype"
                              THEN Microtype_new(stream[j].on, <<x>>)
                              ELSE SecretMicrotype_new(stream[j].on,
                                                       wrapper_ident(stream[j].on), <<x>>)]
    /\ UNCHANGED <<features, decls, pc, microtypes, idx, stream, results, src>>

\* the caller reads the value back through a method of an impl the output
\* holds for the type
Access ==
    /\ rt.stage = "built"
    /\ \/ /\ HasTok(stream, "impl", rt.ty, "Microtype")
          /\ \/ \E m \in {"into_inner", "inner", "inner_mut"} :
                   rt' = [rt EXCEPT !.stage = "read", !.via = m,
                                    !.out = CASE m = "into_inner" -> into_inner(rt.obj)
                                              [] m = "inner" -> inner(rt.obj)
                                              [] OTHER -> inner_mut(rt.obj)]
             \/ \E j \in DOMAIN stream :
                   /\ stream[j].k = "impl" /\ stream[j].what = "Microtype"
                   /\ stream[j].on # rt.ty
                   /\ InnerOf(stream[j].on) = InnerOf(rt.ty)
                   /\ rt' = [rt EXCEPT !.stage = "read", !.via = "convert",
                                       !.to = stream[j].on,
                                       !.out = convert(rt.obj, stream[j].on)]
       \/ /\ HasTok(stream, "impl", rt.ty, "ExposeSecret")
          /\ rt' = [rt EXCEPT !.stage = "read", !.via = "expose_secret",
                              !.out = expose_secret(rt.obj)]
    /\ UNCHANGED <<features, decls, pc, microtypes, idx, stream, results, src>>

MacroNext ==
    \/ ParseDecl
    \/ ParseReturn
    \/ Flatten
    \/ CodegenStep
    \/ CodegenReturn
    \/ Construct
    \/ Access

MacroSpec == MacroInit /\ [][MacroNext]_vars

(***************************************************************************)
(* C21: constructing a wrapper from a value x and reading it back gives x:  *)
(* for a normal wrapper into_inner returns x, inner and inner_mut refer to  *)
(* x, and convert gives the other wrapper holding x; for a secret wrapper   *)
(* expose_secret refers to x.                                               *)
(***************************************************************************)
C21_RoundTrip ==
    rt.stage = "read" =>
        CASE rt.via = "into_inner" -> rt.out = Owned(<<rt.x>>)
          [] rt.via = "inner" -> rt.out = SharedRef(<<rt.x>>)
          [] rt.via = "inner_mut" -> rt.out = MutRef(<<rt.x>>)
          [] rt.via = "convert" ->
                /\ rt.out.mode = "owned"
                /\ rt.out.val = <<rt.to, rt.x>>
                /\ into_inner(rt.out.val) = Owned(<<rt.x>>)
          [] rt.via = "expose_secret" -> rt.out = SharedRef(<<rt.x>>)
          [] OTHER -> FALSE

\* a normal wrapper built from "user@example.com" has been converted into
\* another generated wrapper of the same inner type
C21_Witness ==
    /\ rt.stage = "read"
    /\ rt.via = "convert"
    /\ rt.x = "user@example.com"
    /\ rt.to # rt.ty
    /\ HasTok(stream, "struct", rt.to, "inherited")
    /\ Head(rt.obj) = rt.ty

\* the blocks the shapes describe, as parse should return them
ShapeDecls(shapes) ==
    [b \in 1..Len(shapes) |->
        MicrotypeDecl(IF shapes[b].marked THEN <<Attr("secret", "path", <<>>, b)>>
                      ELSE <<>>,
                      "inherited", "String",
                      [i \in 1..shapes[b].ni |-> AttrIdent(<<>>, SrcName(b, i))])]

\* where the first malformed block of the shapes goes wrong: at the token
\* after its type when it has no braces, at the literal otherwise
FirstFault(shapes) ==
    LET b == CHOOSE b \in DOMAIN shapes :
                /\ shapes[b].fault # "none"
                /\ \A h \in 1..(b - 1) : shapes[h].fault = "none"
        g == SrcStart(shapes, b) + (IF shapes[b].marked THEN 1 ELSE 0) + 1
    IN IF shapes[b].fault = "bad_ident" THEN TokSpan(g, 2 * shapes[b].ni - 1)
       ELSE IF g > Len(SrcFrom(shapes, 1)) THEN TokSpan(0, 0)
       ELSE TokSpan(g, 0)

\* every list of block shapes with the tokens it is written as
Written ==
    { [shapes |-> shapes, tokens |-> SrcFrom(shapes, 1)] :
        shapes \in SeqUpTo(SrcShapes, MaxSrcBlocks) }

(***************************************************************************)
(* C22: parsing returns the blocks in source order, each with its           *)
(* annotations and names in source order, and consumes the whole input; if  *)
(* a block is malformed, parsing returns one error at the first malformed   *)
(* position and no blocks, and flatten and codegen do not run.              *)
(***************************************************************************)
C22_ParseAllOrNothing ==
    \A written \in Written :
        src.tokens = written.tokens =>
            LET shapes == written.shapes
                faulty == \E b \in DOMAIN shapes : shapes[b].fault # "none"
            IN /\ faulty => pc \in {"parsing", "parse_error"}
               /\ pc = "parse_error" =>
                     /\ faulty
                     /\ decls = <<>> /\ microtypes = <<>> /\ results = <<>>
                     /\ IsError(stream, "syn parse error", FirstFault(shapes))
               /\ pc \notin {"parsing", "parse_error"} =>
                     /\ decls = ShapeDecls(shapes)
                     /\ src.cursor = Len(src.tokens) + 1

\* parsing has failed at the literal in the second block of `String { A }
\* #[secret] String { C, 1 }`: the first block, already parsed, is dropped
C22_Witness ==
    /\ pc = "parse_error"
    /\ Len(src.tokens) = 5
    /\ src.cursor = 3
    /\ src.tokens[5].t = "group"
    /\ Len(src.tokens[5].body) = 3
    /\ src.tokens[5].body[3].t = "lit"
    /\ stream[1].span = TokSpan(5, 3)
    /\ decls = <<>>

\* generate_secret has returned the types of a spec marked secret(serialize)
\* while serde is on
SerializedSecret(k) ==
    /\ results[k].route = "secret" /\ ~results[k].panic
    /\ results[k].strip.special_attrs.secret.serialize
    /\ features.serde

(***************************************************************************)
(* C23 as stated: for a secret spec with the serialize argument and serde   *)
(* on, Serialize is derived on the outer type and not on the hidden         *)
(* wrapper.                                                                 *)
(***************************************************************************)
C23_Original ==
    \A k \in Calls :
        SerializedSecret(k) =>
            /\ HasGenAttr(results[k].tokens, microtypes[k].name, "derive(Serialize)")
            /\ ~HasGenAttr(results[k].tokens, wrapper_ident(microtypes[k].name),
                           "derive(Serialize)")

(***************************************************************************)
(* C23: for a secret spec with the serialize argument and serde on,         *)
(* Serialize is derived on the outer type and on the hidden wrapper alike,  *)
(* and the wrapper is marked SerializableSecret, which is what lets the     *)
(* outer derive go through Secret<wrapper>.                                 *)
(***************************************************************************)
C23_SerializeOnBoth ==
    \A k \in Calls :
        SerializedSecret(k) =>
            LET wrapper == wrapper_ident(microtypes[k].name)
            IN /\ HasGenAttr(results[k].tokens, microtypes[k].name, "derive(Serialize)")
               /\ HasGenAttr(results[k].tokens, wrapper, "derive(Serialize)")
               /\ HasImpl(results[k].tokens, wrapper, "SerializableSecret")

\* generate_secret has run on `#[secret(serialize)] .. { A }` with serde on:
\* __WrapperA derives Serialize
C23_Witness ==
    \E k \in Calls :
        /\ SerializedSecret(k)
        /\ Len(microtypes[k].attrs) = 1
        /\ HasGenAttr(results[k].tokens, wrapper_ident(microtypes[k].name),
                      "derive(Serialize)")

\* the stream holds the two impls of test_impls for `on`, compiled in test
\* builds only: the Debug that writes the exposed value and PartialEq
HasTestImpls(tokens, on) ==
    /\ \E j \in DOMAIN tokens :
          /\ tokens[j].k = "impl" /\ tokens[j].what = "Debug"
          /\ tokens[j].on = on /\ tokens[j].cfg = "test"
    /\ \E j \in DOMAIN tokens :
          /\ tokens[j].k = "impl" /\ tokens[j].what = "PartialEq"
          /\ tokens[j].on = on /\ tokens[j].cfg = "test"

\* the stream holds one of the two impls of test_impls for `on`
HasSomeTestImpl(tokens, on) ==
    \E j \in DOMAIN tokens :
        /\ tokens[j].k = "impl" /\ tokens[j].what \in {"Debug", "PartialEq"}
        /\ tokens[j].on = on /\ tokens[j].cfg = "test"

Count(attrs, name) == Cardinality(Marked(attrs, name))

(***************************************************************************)
(* C25: for a list with no secret fault, two or more string markers give    *)
(* the duplicate-string error at the second string marker; two or more int  *)
(* markers with at most one string marker give the duplicate-int error at   *)
(* the second int marker; one string and no int gives kind String, one int  *)
(* and no string gives kind Int.                                            *)
(***************************************************************************)
C25_KindAnnotation ==
    \A k \in Calls :
        LET attrs == microtypes[k].attrs
            strip == results[k].strip
            ns == Count(attrs, "string")
            ni == Count(attrs, "int")
        IN SecretPassOk(attrs) =>
              /\ ns >= 2 =>
                    /\ ~strip.ok
                    /\ IsError(strip.err, "duplicate string attribute found",
                               AttrSpan(attrs[NthMarked(attrs, "string", 2)]))
              /\ (ni >= 2 /\ ns <= 1) =>
                    /\ ~strip.ok
                    /\ IsError(strip.err, "duplicate int attribute found",
                               AttrSpan(attrs[NthMarked(attrs, "int", 2)]))
              /\ (ns = 1 /\ ni = 0) =>
                    strip.ok /\ strip.special_attrs.type_annotation = "String"
              /\ (ni = 1 /\ ns = 0) =>
                    strip.ok /\ strip.special_attrs.type_annotation = "Int"

\* strip_special_attrs has run on `#[string] #[int] #[string]`: the error is
\* the duplicate string at the third attribute, the second string marker
C25_Witness ==
    \E k \in Calls :
        LET attrs == microtypes[k].attrs
        IN /\ Len(attrs) = 3
           /\ attrs[1].name = "string" /\ attrs[2].name = "int"
           /\ attrs[3].name = "string"
           /\ IsError(results[k].strip.err, "duplicate string attribute found",
                      AttrSpan(attrs[3]))

(***************************************************************************)
(* C26: every error strip_special_attrs returns is located at one of the    *)
(* control annotations of the spec it validated.                            *)
(***************************************************************************)
C26_ErrorsLocated ==
    \A k \in Calls :
        LET attrs == microtypes[k].attrs
            strip == results[k].strip
        IN ~strip.ok =>
              /\ Len(strip.err) = 1
              /\ strip.err[1].span # CallSite
              /\ \E j \in DOMAIN attrs :
                    /\ attrs[j].name \in {"secret", "string", "int"}
                    /\ strip.err[1].span.pos = attrs[j].pos

\* the messages of a secret marker that is not bare, () or (serialize)
MalformedSecretMsgs ==
    {"expected either #[secret] or #[secret(serialize)]", "syn parse error"}

\* the messages the passes of validation may give for the faults of a list,
\* by the order of the passes; the empty set when the list has no fault
ExpectedFault(attrs) ==
    LET ns == Count(attrs, "string")
        ni == Count(attrs, "int")
    IN IF Count(attrs, "secret") >= 2 THEN {"duplicate secret attribute found"}
       ELSE IF ~SecretPassOk(attrs) THEN MalformedSecretMsgs
       ELSE IF ns >= 2 THEN {"duplicate string attribute found"}
       ELSE IF ni >= 2 THEN {"duplicate int attribute found"}
       ELSE IF ns = 1 /\ ni = 1 THEN {ConflictMsg}
       ELSE {}

\* the list has faults of at least two of the kinds
SeveralFaults(attrs) ==
    LET ns == Count(attrs, "string")
        ni == Count(attrs, "int")
    IN Cardinality({ f \in {"secret", "string", "int", "conflict"} :
                       \/ f = "secret" /\ ~SecretPassOk(attrs)
                       \/ f = "string" /\ ns >= 2
                       \/ f = "int" /\ ni >= 2
                       \/ f = "conflict" /\ ns >= 1 /\ ni >= 1 }) >= 2

(***************************************************************************)
(* C27: a list with faults gets exactly one error, chosen by the order of   *)
(* the passes and not by where the markers stand: a duplicate secret, else  *)
(* a malformed secret marker, else a duplicate string, else a duplicate     *)
(* int, else the string/int conflict.                                       *)
(***************************************************************************)
C27_PassOrder ==
    \A k \in Calls :
        LET attrs == microtypes[k].attrs
            strip == results[k].strip
        IN /\ ExpectedFault(attrs) = {} <=> strip.ok
           /\ ExpectedFault(attrs) # {} =>
                 /\ Len(strip.err) = 1
                 /\ strip.err[1].k = "compile_error"
                 /\ strip.err[1].what \in ExpectedFault(attrs)
                 /\ results[k].tokens = strip.err

\* strip_special_attrs has run on `#[string] #[string] #[secret(other)]`:
\* the malformed secret marker, last in the list, is what is reported
C27_Witness ==
    \E k \in Calls :
        LET attrs == microtypes[k].attrs
        IN /\ Len(attrs) = 3
           /\ SeveralFaults(attrs)
           /\ attrs[1].name = "string" /\ attrs[2].name = "string"
           /\ attrs[3].name = "secret" /\ attrs[3].nested = <<"other">>
           /\ IsError(results[k].strip.err,
                      "expected either #[secret] or #[secret(serialize)]",
                      NestedSpan(attrs[3], 1))

SerializeMsg ==
    "#[secret(serialize)] has no effect unless the serde_support feature is enabled]"

(***************************************************************************)
(* C28: in generate_single a validation error comes before both feature     *)
(* checks, and the serialize check before the secret-feature check: a valid *)
(* secret(serialize) with serde and secret both off gets the serialize      *)
(* error, a plain secret with secret off gets the secret-feature error      *)
(* whether serde is on or off.                                              *)
(***************************************************************************)
C28_CheckOrder ==
    \A k \in Calls :
        LET attrs == microtypes[k].attrs
            strip == results[k].strip
            secret == strip.special_attrs.secret
            tokens == results[k].tokens
        IN /\ ~strip.ok =>
                 /\ results[k].route = "strip_err"
                 /\ tokens = strip.err
                 /\ tokens[1].what \notin {SerializeMsg, SecretMissingMsg}
           /\ (strip.ok /\ secret.some /\ secret.serialize
                 /\ ~features.serde /\ ~features.secret) =>
                 /\ IsError(tokens, SerializeMsg, PathSpan(TheMarked(attrs, "secret")))
                 /\ results[k].route = "serialize_without_serde"
           /\ (strip.ok /\ secret.some /\ ~secret.serialize /\ ~features.secret) =>
                 /\ IsError(tokens, SecretMissingMsg,
                            PathSpan(TheMarked(attrs, "secret")))
                 /\ results[k].route = "secret_feature_missing"

\* generate_single has run on `#[secret(serialize)] .. { A }` with serde and
\* secret both off and has returned the serialize error
C28_Witness ==
    \E k \in Calls :
        LET attrs == microtypes[k].attrs
        IN /\ ~features.serde /\ ~features.secret
           /\ Len(attrs) = 1
           /\ attrs[1].name = "secret" /\ attrs[1].nested = <<"serialize">>
           /\ results[k].route = "serialize_without_serde"
           /\ results[k].tokens[1].what = SerializeMsg

\* the Debug impls of `on` that are compiled in the build: derives whose
\* cfg_attr applies and hand-written impls whose cfg applies
DebugImpls(tokens, on, build) ==
    { j \in DOMAIN tokens :
        /\ tokens[j].on = on
        /\ tokens[j].cfg \in {"always", build}
        /\ \/ tokens[j].k = "attr" /\ tokens[j].what = "derive(Debug)"
           \/ tokens[j].k = "impl" /\ tokens[j].what = "Debug" }

(***************************************************************************)
(* C29: for every generated secret type, whatever the test_impls feature,   *)
(* in a test build and in a non-test build alike exactly one Debug impl of  *)
(* the outer type is compiled.                                              *)
(***************************************************************************)
C29_OneDebugImpl ==
    \A k \in Calls :
        (results[k].route = "secret" /\ ~results[k].panic) =>
            \A build \in {"test", "not_test"} :
                Cardinality(DebugImpls(results[k].tokens, microtypes[k].name, build)) = 1

\* the type identifiers the output defines, one per struct item
StructItems == { j \in DOMAIN stream : stream[j].k = "struct" }

(***************************************************************************)
(* C30: when the declared names of an invocation are pairwise different,    *)
(* the struct items of its output define pairwise different identifiers.    *)
(***************************************************************************)
C30_DistinctTypeIdents ==
    (/\ pc = "done"
     /\ \A h, k \in DOMAIN microtypes :
           h # k => microtypes[h].name # microtypes[k].name) =>
        \A i, j \in StructItems : i # j => stream[i].on # stream[j].on

====
